---- MODULE Spec2Model ----
(***************************************************************************)
(* A model of the five-stage RISC-V pipeline simulator (rv_pipelined.py    *)
(* and the units under rv_units/).  One call of RiscV.cycle() is one step. *)
(*                                                                         *)
(* Python objects are modelled by what the code can observe of them:       *)
(*  - a DataRegister (a Word) and a Python int are told apart where the    *)
(*    code tells them apart (RegisterFile.write_data reads value.data,     *)
(*    which an int does not have): such values are records [ty, v];        *)
(*  - RegisterFile.read_data returns the register OBJECT, and write_data   *)
(*    changes that object in place, so what Decode places on a bus is a    *)
(*    reference: a record [reg, val] where reg is the register index (or   *)
(*    NoReg for an object no register shares) and val is the content at    *)
(*    the time the reference was taken;                                    *)
(*  - an instruction is the sequence of its 32 characters, as bits;        *)
(*  - the Data Memory file is the sequence of its bytes.                   *)
(***************************************************************************)
EXTENDS Integers, Sequences, FiniteSets, TLC

\* ------------------------------------------------------------------ bounds
\* the longest program (number of instruction lines) the model loads
MaxProg == 4
\* the number of cycle() calls the model follows
MaxCalls == 10
\* the largest address given to a direct Data Memory call
MaxAddr == 3
\* the number of direct calls made on one unit in a row
MaxOps == 3

\* ------------------------------------------------------------ bit strings
\* Python's s[i:j] on a string s (0-based, j exclusive)
Slice(s, i, j) == SubSeq(s, i + 1, j)

\* Python's int(s, 2): the unsigned value of a string of binary digits
RECURSIVE IntOfBits(_)
IntOfBits(s) ==
    IF s = << >> THEN 0
    ELSE 2 * IntOfBits(SubSeq(s, 1, Len(s) - 1)) + s[Len(s)]

\* the w binary digits of n, most significant first (a line of the program file)
RECURSIVE Bits(_, _)
Bits(n, w) ==
    IF w = 0 THEN << >> ELSE Append(Bits(n \div 2, w - 1), n % 2)

\* ------------------------------------------------------------------ words
\* int.to_bytes(4, byteorder='big', signed=True): two's complement, 4 bytes
ToBytesBig(n) ==
    << (n \div 16777216) % 256, (n \div 65536) % 256, (n \div 256) % 256, n % 256 >>

\* int.from_bytes(b, byteorder='big', signed=True) of 4 bytes
FromBytesBig(b) ==
    (IF b[1] >= 128 THEN b[1] - 256 ELSE b[1]) * 16777216
        + b[2] * 65536 + b[3] * 256 + b[4]

\* a DataRegister object holding n, as a typed value
Word(n) == [ty |-> "Word", v |-> FromBytesBig(ToBytesBig(n))]
\* a Python int, as a typed value
PyInt(n) == [ty |-> "int", v |-> n]

\* the index that marks an object no register of the file shares
NoReg == -1
\* a reference to a DataRegister object that is not in the register file
Fresh(n) == [reg |-> NoReg, val |-> FromBytesBig(ToBytesBig(n))]
\* int(obj) of a referenced DataRegister: the object's contents now
ValueOf(ref, regs) == IF ref.reg = NoReg THEN ref.val ELSE regs[ref.reg]

\* the halt sentinel: the empty dict {}
Empty == [empty |-> TRUE]

\* ----------------------------------------------------------- control unit
OpRType == 51
OpLoad == 3
OpStore == 35
OpBranch == 99
OpAddi == 19

\* ControlUnit.__init__: every signal false
ControlUnit ==
    [alu_src |-> FALSE, mem_to_reg |-> FALSE, reg_write |-> FALSE,
     mem_read |-> FALSE, mem_write |-> FALSE, branch |-> FALSE,
     alu_op |-> <<FALSE, FALSE>>]

set_opcode_second_branch_case(opcode) ==
    IF opcode = OpRType THEN
        [ControlUnit EXCEPT !.reg_write = TRUE, !.alu_op = <<FALSE, TRUE>>]
    ELSE IF opcode = OpLoad THEN
        [ControlUnit EXCEPT !.alu_src = TRUE, !.mem_to_reg = TRUE,
            !.reg_write = TRUE, !.mem_read = TRUE]
    ELSE IF opcode = OpStore THEN
        [ControlUnit EXCEPT !.alu_src = TRUE, !.mem_write = TRUE]
    ELSE IF opcode = OpBranch THEN
        [ControlUnit EXCEPT !.branch = TRUE, !.alu_op = <<FALSE, TRUE>>]
    ELSE IF opcode = OpAddi THEN
        [ControlUnit EXCEPT !.alu_src = TRUE, !.reg_write = TRUE]
    ELSE ControlUnit

\* ControlUnit.set_opcode, were an unrecognized opcode to set mem_write
set_opcode_unrecognized_stores(opcode) ==
    IF opcode = OpRType THEN
        [ControlUnit EXCEPT !.alu_src = FALSE, !.mem_to_reg = FALSE,
            !.reg_write = TRUE, !.mem_read = FALSE, !.mem_write = FALSE,
            !.branch = FALSE, !.alu_op = <<FALSE, TRUE>>]
    ELSE IF opcode = OpLoad THEN
        [ControlUnit EXCEPT !.alu_src = TRUE, !.mem_to_reg = TRUE,
            !.reg_write = TRUE, !.mem_read = TRUE, !.mem_write = FALSE,
            !.branch = FALSE, !.alu_op = <<FALSE, FALSE>>]
    ELSE IF opcode = OpStore THEN
        [ControlUnit EXCEPT !.alu_src = TRUE, !.reg_write = FALSE,
            !.mem_read = FALSE, !.mem_write = TRUE, !.branch = FALSE,
            !.alu_op = <<FALSE, FALSE>>]
    ELSE IF opcode = OpBranch THEN
        [ControlUnit EXCEPT !.alu_src = FALSE, !.reg_write = FALSE,
            !.mem_read = FALSE, !.mem_write = FALSE, !.branch = TRUE,
            !.alu_op = <<TRUE, FALSE>>]
    ELSE IF opcode = OpAddi THEN
        [ControlUnit EXCEPT !.alu_src = TRUE, !.mem_to_reg = FALSE,
            !.reg_write = TRUE, !.mem_read = FALSE, !.mem_write = FALSE,
            !.branch = FALSE, !.alu_op = <<FALSE, FALSE>>]
    ELSE [ControlUnit EXCEPT !.mem_write = TRUE]

\* ControlUnit.set_opcode on a fresh unit: the first matching case sets the
\* signals it names (SW and BEQ leave mem_to_reg as constructed); the second
\* 1100011 case is unreachable; any other opcode only logs an error
set_opcode(opcode) ==
    IF opcode = OpRType THEN
        [ControlUnit EXCEPT !.alu_src = FALSE, !.mem_to_reg = FALSE,
            !.reg_write = TRUE, !.mem_read = FALSE, !.mem_write = FALSE,
            !.branch = FALSE, !.alu_op = <<FALSE, TRUE>>]
    ELSE IF opcode = OpLoad THEN
        [ControlUnit EXCEPT !.alu_src = TRUE, !.mem_to_reg = TRUE,
            !.reg_write = TRUE, !.mem_read = TRUE, !.mem_write = FALSE,
            !.branch = FALSE, !.alu_op = <<FALSE, FALSE>>]
    ELSE IF opcode = OpStore THEN
        [ControlUnit EXCEPT !.alu_src = TRUE, !.reg_write = FALSE,
            !.mem_read = FALSE, !.mem_write = TRUE, !.branch = FALSE,
            !.alu_op = <<FALSE, FALSE>>]
    ELSE IF opcode = OpBranch THEN
        [ControlUnit EXCEPT !.alu_src = FALSE, !.reg_write = FALSE,
            !.mem_read = FALSE, !.mem_write = FALSE, !.branch = TRUE,
            !.alu_op = <<TRUE, FALSE>>]
    ELSE IF opcode = OpAddi THEN
        [ControlUnit EXCEPT !.alu_src = TRUE, !.mem_to_reg = FALSE,
            !.reg_write = TRUE, !.mem_read = FALSE, !.mem_write = FALSE,
            !.branch = FALSE, !.alu_op = <<FALSE, FALSE>>]
    ELSE ControlUnit

\* ControlUnit.set_opcode logs the error '[Control Unit] Opcode not recognized':
\* the case _ of its match
opcode_not_recognized(opcode) ==
    opcode \notin {OpRType, OpLoad, OpStore, OpBranch, OpAddi}

\* ------------------------------------------------------------ multiplexer
\* MUX1.__init__
MUX1(in0, in1) == [input0 |-> in0, input1 |-> in1, select |-> 0]
\* MUX1.write
mux_write(m, value, select) ==
    IF select = 1 THEN [m EXCEPT !.input1 = value] ELSE [m EXCEPT !.input0 = value]
\* MUX1.read
mux_read(m) == IF m.select = 1 THEN m.input1 ELSE m.input0
\* MUX1.set_select raises ValueError outside 0..1
mux_select_error(select) == select < 0 \/ select > 1
\* MUX1.set_select
mux_set_select(m, select) ==
    IF mux_select_error(select) THEN m ELSE [m EXCEPT !.select = select]
\* MUX2.__init__
MUX2(in0, in1, in2) == [input0 |-> in0, input1 |-> in1, input2 |-> in2, select |-> 0]
\* MUX2.write
mux2_write(m, value, select) ==
    IF select = 1 THEN [m EXCEPT !.input1 = value]
    ELSE IF select = 2 THEN [m EXCEPT !.input2 = value]
    ELSE [m EXCEPT !.input0 = value]
\* MUX2.read without its case 2
mux2_read_without_case_2(m) == IF m.select = 1 THEN m.input1 ELSE m.input0
\* MUX2.read
mux2_read(m) ==
    IF m.select = 1 THEN m.input1
    ELSE IF m.select = 2 THEN m.input2
    ELSE m.input0
\* MUX2.set_select raises ValueError outside 0..2
mux2_select_error(select) == select < 0 \/ select > 2
\* MUX2.set_select
mux2_set_select(m, select) ==
    IF mux2_select_error(select) THEN m ELSE [m EXCEPT !.select = select]
\* int(b) of a Python bool
IntOfBool(b) == IF b THEN 1 ELSE 0

\* -------------------------------------------------------------------- ALU
AluAdd == 2
AluSub == 6
AluAnd == 0
AluOr == 1
AluSlt == 7
Funct7Sub == 32
Funct3Add == 0
Funct3And == 7
Funct3Or == 6

\* ALU.__init__
ALU == [a |-> 0, b |-> 0, result |-> 0, zero |-> FALSE, control |-> 0]

\* ALU.alu_control raises ValueError('Invalid function code')
alu_control_error(control_signal, funct3, funct7) ==
    /\ ~control_signal.alu_op[1]
    /\ control_signal.alu_op[2]
    /\ funct7 # Funct7Sub
    /\ funct3 \notin {Funct3Add, Funct3And, Funct3Or}

alu_control_code_and_or_swapped(control_signal, funct3, funct7) ==
    IF control_signal.alu_op[1] THEN AluSub
    ELSE IF control_signal.alu_op[2] THEN
        IF funct7 = Funct7Sub THEN AluSub
        ELSE IF funct3 = Funct3Add THEN AluAdd
        ELSE IF funct3 = Funct3And THEN AluOr
        ELSE AluAnd
    ELSE AluAdd

\* ALU.alu_control, were a branch with funct3 001 to select another operation
alu_control_code_bne_adds(control_signal, funct3, funct7) ==
    IF control_signal.alu_op[1] THEN (IF funct3 = 1 THEN AluAdd ELSE AluSub)
    ELSE IF control_signal.alu_op[2] THEN
        IF funct7 = Funct7Sub THEN AluSub
        ELSE IF funct3 = Funct3Add THEN AluAdd
        ELSE IF funct3 = Funct3And THEN AluAnd
        ELSE AluOr
    ELSE AluAdd

\* ALU.alu_control: the operation code selected (when it does not raise)
alu_control_code(control_signal, funct3, funct7) ==
    IF control_signal.alu_op[1] THEN AluSub
    ELSE IF control_signal.alu_op[2] THEN
        IF funct7 = Funct7Sub THEN AluSub
        ELSE IF funct3 = Funct3Add THEN AluAdd
        ELSE IF funct3 = Funct3And THEN AluAnd
        ELSE AluOr
    ELSE AluAdd

\* ALU.alu_control: the error is raised before anything is assigned
alu_control(alu, control_signal, funct3, funct7) ==
    IF alu_control_error(control_signal, funct3, funct7) THEN alu
    ELSE [alu EXCEPT !.control = alu_control_code(control_signal, funct3, funct7),
                     !.zero = FALSE]

\* Python's a & b on ints (two's complement of unbounded width)
RECURSIVE PyAnd(_, _)
PyAnd(a, b) ==
    IF a = 0 \/ b = 0 THEN 0
    ELSE IF a = -1 THEN b
    ELSE IF b = -1 THEN a
    ELSE (a % 2) * (b % 2) + 2 * PyAnd(a \div 2, b \div 2)

\* Python's a | b on ints
RECURSIVE PyOr(_, _)
PyOr(a, b) ==
    IF a = 0 THEN b
    ELSE IF b = 0 THEN a
    ELSE IF a = -1 \/ b = -1 THEN -1
    ELSE (IF a % 2 = 1 \/ b % 2 = 1 THEN 1 ELSE 0) + 2 * PyOr(a \div 2, b \div 2)

\* ALU.do_op raises ValueError('Invalid operation')
do_op_error(alu) == alu.control \notin {AluAdd, AluSub, AluAnd, AluOr, AluSlt}

\* ALU.do_op: the result is a Python int, never reduced to 32 bits. A sum or
\* difference of two 32-bit operands can need 33 bits, so the result is
\* computed in two parts that each fit a 32-bit integer: the result halved
\* (rounded down) and its lowest bit
do_op_half(alu) ==
    IF alu.control = AluAdd THEN
        (alu.a \div 2) + (alu.b \div 2) + (((alu.a % 2) + (alu.b % 2)) \div 2)
    ELSE IF alu.control = AluSub THEN
        (alu.a \div 2) - (alu.b \div 2) + (((alu.a % 2) - (alu.b % 2)) \div 2)
    ELSE IF alu.control = AluAnd THEN PyAnd(alu.a, alu.b) \div 2
    ELSE IF alu.control = AluOr THEN PyOr(alu.a, alu.b) \div 2
    ELSE 0

do_op_odd(alu) ==
    IF alu.control = AluAdd THEN ((alu.a % 2) + (alu.b % 2)) % 2
    ELSE IF alu.control = AluSub THEN ((alu.a % 2) - (alu.b % 2)) % 2
    ELSE IF alu.control = AluAnd THEN PyAnd(alu.a, alu.b) % 2
    ELSE IF alu.control = AluOr THEN PyOr(alu.a, alu.b) % 2
    ELSE IntOfBool(alu.a < alu.b)

\* ALU.do_op: the result as one number
do_op_result(alu) == 2 * do_op_half(alu) + do_op_odd(alu)

\* ALU.do_op: the zero flag is only ever set here (alu_control clears it)
do_op(alu) ==
    IF do_op_error(alu) THEN alu
    ELSE [alu EXCEPT !.result = do_op_result(alu),
                     !.zero = IF do_op_result(alu) = 0 THEN TRUE ELSE alu.zero]

\* ------------------------------------------------------------ data memory
\* 256 ** k
RECURSIVE Pow256(_)
Pow256(k) == IF k = 0 THEN 1 ELSE 256 * Pow256(k - 1)

\* int.to_bytes(4, 'little', signed=True)
ToBytesLittle(n) ==
    << n % 256, (n \div 256) % 256, (n \div 65536) % 256, (n \div 16777216) % 256 >>

\* the unsigned little-endian value of a byte string
RECURSIVE UnsignedLittle(_)
UnsignedLittle(b) ==
    IF b = << >> THEN 0 ELSE b[1] + 256 * UnsignedLittle(Tail(b))

\* int.from_bytes(b, 'little', signed=True) of the 0..4 bytes a read returned
FromBytesLittle(b) ==
    IF b = << >> THEN 0
    ELSE (IF b[Len(b)] >= 128 THEN b[Len(b)] - 256 ELSE b[Len(b)]) * Pow256(Len(b) - 1)
            + UnsignedLittle(SubSeq(b, 1, Len(b) - 1))

\* f.seek(address) raises OSError on a negative offset
seek_error(address) == address < 0

\* DataMemory.write: seek(address) is a BYTE offset; the 4 bytes overwrite or
\* extend the file, and a gap before them reads as zero bytes
dmem_write(mem, address, data) ==
    IF seek_error(address) THEN mem
    ELSE [i \in 1..(IF Len(mem) > address + 4 THEN Len(mem) ELSE address + 4) |->
            IF i > address /\ i <= address + 4 THEN ToBytesLittle(data)[i - address]
            ELSE IF i <= Len(mem) THEN mem[i]
            ELSE 0]

dmem_read_word_offset(mem, address) ==
    FromBytesLittle(SubSeq(mem, 4 * address + 1,
        IF 4 * address + 4 < Len(mem) THEN 4 * address + 4 ELSE Len(mem)))

\* DataMemory.read: up to 4 bytes from byte offset address, fewer at the end of
\* the file, decoded little-endian signed
dmem_read(mem, address) ==
    FromBytesLittle(SubSeq(mem, address + 1,
                           IF address + 4 < Len(mem) THEN address + 4 ELSE Len(mem)))

\* ---------------------------------------------------------- register file
NumRegs == 32
\* RegisterFile.__init__: x0..x31 all DataRegister(0)
RegisterFile == [i \in 0..(NumRegs - 1) |-> 0]

write_data_error_x0_allowed(write_register, value) ==
    IF value.ty # "Word" THEN "AttributeError" ELSE ""

\* RegisterFile.write_data: the error it raises ("" when none). x0 is refused
\* first; then value.data is read, which a Python int does not have
write_data_error(write_register, value) ==
    IF write_register = 0 THEN "ValueError"
    ELSE IF value.ty # "Word" THEN "AttributeError"
    ELSE ""

\* RegisterFile.write_data: the register object is changed in place
write_data(regs, write_register, value) ==
    IF write_data_error(write_register, value) # "" THEN regs
    ELSE [regs EXCEPT ![write_register] = value.v]

\* RegisterFile.read_data: the register OBJECT the port selects, not a copy
read_data(regs, port) == [reg |-> port, val |-> regs[port]]

\* ------------------------------------------------------ immediate generator
\* RiscV.imm_gen: int(imm, 2) is the unsigned value of the digits, so the
\* 4 bytes are those of a number >= 0 whatever the first digit is
imm_gen(imm) == FromBytesBig(ToBytesBig(IntOfBits(imm)))

\* ---------------------------------------------------------- initial buses
NopInstruction == Bits(0, 32)

InitBusIfId == [pc |-> 0, instruction |-> NopInstruction]

InitBusIdEx ==
    [control |-> ControlUnit, pc |-> 0, rr_1 |-> Fresh(0), rr_2 |-> Fresh(0),
     imm |-> 0, instruction |-> NopInstruction, rd |-> 0]

InitBusExMem ==
    [control |-> ControlUnit, offset |-> 0, ZERO |-> FALSE,
     alu_result |-> Word(0), rr_2 |-> Fresh(0), rd |-> 0,
     instruction |-> NopInstruction]

InitBusMemWb ==
    [control |-> ControlUnit, dmem_read_data |-> Word(0),
     alu_result |-> Word(0), rd |-> 0, instruction |-> NopInstruction]

\* ------------------------------------------------------------------ stages
\* what the record of a call holds for a stage the call never ran
NotRun == [notrun |-> TRUE]
\* the record of a register-file write Decode did not attempt
NoRegWrite == [tried |-> FALSE, ok |-> FALSE, rd |-> 0, value |-> Word(0)]
\* the record of a Data Memory write MEM did not attempt
NoMemWrite == [tried |-> FALSE, address |-> 0, data |-> 0]

\* RiscV._instruction_fetch: PC from the PC multiplexer, PC+4 to its input 0,
\* the sentinel when no instruction is stored at PC
instruction_fetch(mux, mem) ==
    [pc |-> mux_read(mux),
     mux |-> mux_write(mux, mux_read(mux) + 4, 0),
     bus |-> IF mux_read(mux) \in DOMAIN mem
             THEN [pc |-> mux_read(mux), instruction |-> mem[mux_read(mux)]]
             ELSE Empty]

\* the immediate Decode extracts, by the format the opcode selects
decode_imm(instruction) ==
    LET opcode == IntOfBits(Slice(instruction, 25, 32))
    IN  IF opcode = OpLoad \/ opcode = OpAddi
            THEN imm_gen(Slice(instruction, 0, 12))
        ELSE IF opcode = OpStore
            THEN imm_gen(Slice(instruction, 0, 7) \o Slice(instruction, 20, 25))
        ELSE IF opcode = OpBranch
            THEN imm_gen(<<instruction[1]>> \o <<instruction[25]>>
                         \o Slice(instruction, 1, 7) \o Slice(instruction, 20, 24)
                         \o <<0>>)
        ELSE imm_gen(Slice(instruction, 0, 8))

\* Decode's register-file write: the error it ends with ("" when none).
\* bus_mem_wb['control'] on the sentinel is a KeyError
decode_write_error(mem_wb, wbmux) ==
    IF mem_wb = Empty THEN "KeyError"
    ELSE IF mem_wb.control.reg_write
        THEN write_data_error(mem_wb.rd, mux_read(wbmux))
    ELSE ""

\* RiscV._instruction_decode: the sentinel passes through untouched; else the
\* write for the MEM/WB bus (rd of that bus, value of the write-back
\* multiplexer as it stands), then the two read ports, then the new bus
instruction_decode(if_id, mem_wb, regs, port1, port2, wbmux) ==
    IF if_id = Empty THEN
        [err |-> "", bus |-> Empty, regs |-> regs, port1 |-> port1,
         port2 |-> port2, wr |-> NoRegWrite]
    ELSE IF decode_write_error(mem_wb, wbmux) # "" THEN
        [err |-> decode_write_error(mem_wb, wbmux), bus |-> NotRun, regs |-> regs,
         port1 |-> port1, port2 |-> port2,
         wr |-> IF mem_wb = Empty THEN NoRegWrite
                ELSE [tried |-> TRUE, ok |-> FALSE, rd |-> mem_wb.rd,
                      value |-> mux_read(wbmux)]]
    ELSE
        LET instruction == if_id.instruction
            rr_1 == IntOfBits(Slice(instruction, 12, 17))
            rr_2 == IntOfBits(Slice(instruction, 7, 12))
            rd == IntOfBits(Slice(instruction, 20, 25))
            regs2 == IF mem_wb.control.reg_write
                     THEN write_data(regs, mem_wb.rd, mux_read(wbmux))
                     ELSE regs
        IN  [err |-> "",
             bus |-> [control |-> set_opcode(IntOfBits(Slice(instruction, 25, 32))),
                      pc |-> if_id.pc,
                      rr_1 |-> read_data(regs2, rr_1),
                      rr_2 |-> read_data(regs2, rr_2),
                      imm |-> decode_imm(instruction),
                      instruction |-> instruction,
                      rd |-> rd],
             regs |-> regs2, port1 |-> rr_1, port2 |-> rr_2,
             wr |-> IF mem_wb.control.reg_write
                    THEN [tried |-> TRUE, ok |-> TRUE, rd |-> mem_wb.rd,
                          value |-> mux_read(wbmux)]
                    ELSE NoRegWrite]

\* RiscV._execute: the sentinel passes through untouched; an unmappable
\* funct3 raises before anything is assigned. The operands are read from the
\* referenced objects now, not when Decode took the references
execute(id_ex, alu, exmux, regs) ==
    IF id_ex = Empty THEN
        [err |-> "", bus |-> Empty, alu |-> alu, mux |-> exmux]
    ELSE
        LET funct3 == IntOfBits(Slice(id_ex.instruction, 17, 20))
            funct7 == IntOfBits(Slice(id_ex.instruction, 0, 7))
        IN  IF alu_control_error(id_ex.control, funct3, funct7) THEN
                [err |-> "ValueError", bus |-> NotRun, alu |-> alu, mux |-> exmux]
            ELSE
                LET mux2 == mux_set_select(
                                mux_write(mux_write(exmux, id_ex.rr_2, 0),
                                          Fresh(id_ex.imm), 1),
                                IntOfBool(id_ex.control.alu_src))
                    alu2 == do_op(
                        [alu_control(alu, id_ex.control, funct3, funct7)
                            EXCEPT !.a = ValueOf(id_ex.rr_1, regs),
                                   !.b = ValueOf(mux_read(mux2), regs)])
                IN  [err |-> "",
                     bus |-> [control |-> id_ex.control,
                              offset |-> id_ex.pc + id_ex.imm,
                              ZERO |-> alu2.zero,
                              alu_result |-> PyInt(alu2.result),
                              rr_2 |-> id_ex.rr_2,
                              rd |-> id_ex.rd,
                              instruction |-> id_ex.instruction],
                     alu |-> alu2, mux |-> mux2]

\* the address MEM hands to DataMemory.write: self._alu.result(), the result
\* the ALU holds when MEM runs
mem_write_address(ex_mem, alu) == alu.result

\* MEM's Data Memory accesses: the error they end with ("" when none)
memory_access_error(ex_mem, alu) ==
    IF ex_mem.control.mem_write /\ seek_error(mem_write_address(ex_mem, alu))
        THEN "OSError"
    ELSE IF ex_mem.control.mem_read /\ seek_error(ex_mem.alu_result.v)
        THEN "OSError"
    ELSE ""

\* the select MEM gives the PC multiplexer: zero and control.branch
take_branch_ignoring_zero(ex_mem) == ex_mem.control.branch

take_branch(ex_mem) == ex_mem.ZERO /\ ex_mem.control.branch

\* RiscV._memory_access, were it to set the PC multiplexer back to input 0
\* on the sentinel
memory_access_sentinel_deselects(ex_mem, pcmux, pcsrc, alu, mem, regs) ==
    IF ex_mem = Empty THEN
        [err |-> "", bus |-> Empty, mux |-> mux_set_select(pcmux, 0),
         pc_src |-> FALSE, mem |-> mem, wr |-> NoMemWrite]
    ELSE
        LET mux2 == mux_set_select(mux_write(pcmux, ex_mem.offset, 1),
                                   IntOfBool(take_branch(ex_mem)))
            wr == IF ex_mem.control.mem_write
                  THEN [tried |-> TRUE,
                        address |-> mem_write_address(ex_mem, alu),
                        data |-> ValueOf(ex_mem.rr_2, regs)]
                  ELSE NoMemWrite
            mem2 == IF ex_mem.control.mem_write
                    THEN dmem_write(mem, wr.address, wr.data)
                    ELSE mem
        IN  IF memory_access_error(ex_mem, alu) # "" THEN
                [err |-> memory_access_error(ex_mem, alu), bus |-> NotRun,
                 mux |-> mux2, pc_src |-> take_branch(ex_mem),
                 mem |-> mem2, wr |-> wr]
            ELSE
                [err |-> "",
                 bus |-> [control |-> ex_mem.control,
                          dmem_read_data |->
                              IF ex_mem.control.mem_read
                              THEN Word(dmem_read(mem2, ex_mem.alu_result.v))
                              ELSE Word(0),
                          alu_result |-> ex_mem.alu_result,
                          rd |-> ex_mem.rd,
                          instruction |-> ex_mem.instruction],
                 mux |-> mux2, pc_src |-> take_branch(ex_mem),
                 mem |-> mem2, wr |-> wr]

\* RiscV._memory_access: the sentinel passes through untouched; else the PC
\* multiplexer gets the branch target and its select, then the write and the
\* read of Data Memory
memory_access(ex_mem, pcmux, pcsrc, alu, mem, regs) ==
    IF ex_mem = Empty THEN
        [err |-> "", bus |-> Empty, mux |-> pcmux, pc_src |-> pcsrc,
         mem |-> mem, wr |-> NoMemWrite]
    ELSE
        LET mux2 == mux_set_select(mux_write(pcmux, ex_mem.offset, 1),
                                   IntOfBool(take_branch(ex_mem)))
            wr == IF ex_mem.control.mem_write
                  THEN [tried |-> TRUE,
                        address |-> mem_write_address(ex_mem, alu),
                        data |-> ValueOf(ex_mem.rr_2, regs)]
                  ELSE NoMemWrite
            mem2 == IF ex_mem.control.mem_write
                    THEN dmem_write(mem, wr.address, wr.data)
                    ELSE mem
        IN  IF memory_access_error(ex_mem, alu) # "" THEN
                [err |-> memory_access_error(ex_mem, alu), bus |-> NotRun,
                 mux |-> mux2, pc_src |-> take_branch(ex_mem),
                 mem |-> mem2, wr |-> wr]
            ELSE
                [err |-> "",
                 bus |-> [control |-> ex_mem.control,
                          dmem_read_data |->
                              IF ex_mem.control.mem_read
                              THEN Word(dmem_read(mem2, ex_mem.alu_result.v))
                              ELSE Word(0),
                          alu_result |-> ex_mem.alu_result,
                          rd |-> ex_mem.rd,
                          instruction |-> ex_mem.instruction],
                 mux |-> mux2, pc_src |-> take_branch(ex_mem),
                 mem |-> mem2, wr |-> wr]

\* RiscV._write_back raises ValueError on the sentinel
write_back_error(mem_wb) == mem_wb = Empty

\* RiscV._write_back with the two inputs of the multiplexer exchanged
write_back_inputs_exchanged(mem_wb, wbmux, wbrd) ==
    IF write_back_error(mem_wb) THEN [mux |-> wbmux, wb_rd |-> wbrd]
    ELSE [mux |-> mux_set_select(
                    mux_write(mux_write(wbmux, mem_wb.dmem_read_data, 0),
                              mem_wb.alu_result, 1),
                    IntOfBool(mem_wb.control.mem_to_reg)),
          wb_rd |-> mem_wb.rd]

\* RiscV._write_back: only the write-back multiplexer and _wb_rd change
write_back(mem_wb, wbmux, wbrd) ==
    IF write_back_error(mem_wb) THEN [mux |-> wbmux, wb_rd |-> wbrd]
    ELSE [mux |-> mux_set_select(
                    mux_write(mux_write(wbmux, mem_wb.dmem_read_data, 1),
                              mem_wb.alu_result, 0),
                    IntOfBool(mem_wb.control.mem_to_reg)),
          wb_rd |-> mem_wb.rd]

\* ------------------------------------------------------------ program file
\* the line "\n" of a program file
BlankLine == << >>

\* a line holding an R-type instruction
RType(funct7, rs2, rs1, funct3, rd) ==
    Bits(funct7, 7) \o Bits(rs2, 5) \o Bits(rs1, 5) \o Bits(funct3, 3)
        \o Bits(rd, 5) \o Bits(OpRType, 7)

\* a line holding an I-type instruction (LW, ADDI)
IType(imm, rs1, funct3, rd, opcode) ==
    Bits(imm, 12) \o Bits(rs1, 5) \o Bits(funct3, 3) \o Bits(rd, 5) \o Bits(opcode, 7)

\* a line holding an S-type instruction (SW)
SType(imm, rs2, rs1, funct3) ==
    Bits(imm \div 32, 7) \o Bits(rs2, 5) \o Bits(rs1, 5) \o Bits(funct3, 3)
        \o Bits(imm % 32, 5) \o Bits(OpStore, 7)

\* a line holding a B-type instruction: imm[12|10:5] rs2 rs1 funct3 imm[4:1|11]
BType(imm, rs2, rs1, funct3) ==
    Bits(imm \div 4096, 1) \o Bits((imm \div 32) % 64, 6) \o Bits(rs2, 5)
        \o Bits(rs1, 5) \o Bits(funct3, 3) \o Bits((imm \div 2) % 16, 4)
        \o Bits((imm \div 2048) % 2, 1) \o Bits(OpBranch, 7)

\* add x3, x1, x2
InstrAdd == RType(0, 2, 1, 0, 3)
\* lw x2, 8(x0)
InstrLw == IType(8, 0, 2, 2, OpLoad)
\* sw x1, 8(x0)
InstrSw == SType(8, 1, 0, 2)
\* beq x1, x0, +4
InstrBeq == BType(4, 0, 1, 0)

\* add x0, x1, x2: an R-type word whose rd is the zero register
InstrAddX0 == RType(0, 2, 1, 0, 0)
\* slt x3, x1, x2: the R-type word with funct3 010
InstrSlt == RType(0, 2, 1, 2, 3)

\* the instruction lines the model's program files are made of
InstrSet == {NopInstruction, InstrAdd, InstrLw, InstrSw, InstrBeq}

\* the program files: up to MaxProg lines, each an instruction or blank
Files == UNION {[1..n -> InstrSet \cup {BlankLine}] : n \in 0..MaxProg}

\* a second set of program files, of words the first set leaves out
ExtraInstrSet == {NopInstruction, InstrAddX0, InstrSlt}

ExtraFiles == UNION {[1..n -> ExtraInstrSet] : n \in 0..MaxProg}

\* bne x1, x2, +4: the B-type word with funct3 001
InstrBne == BType(4, 2, 1, 1)
\* beq x1, x2, +16: a branch over the three words that follow it
InstrBeq16 == BType(16, 2, 1, 0)

\* a third set of program files, of branches and stores
BranchInstrSet == {NopInstruction, InstrSw, InstrBne, InstrBeq16}

BranchFiles == UNION {[1..n -> BranchInstrSet] : n \in 0..MaxProg}

\* the registers and values a test presets before it loads the program
PresetRegs == {1, 2}
PresetVals == {5}

\* RiscV.load_program, lines i.. of the file: a blank line is skipped, line 0
\* goes to address 0, every other line to temp_last_addr + 4
RECURSIVE load_lines(_, _, _, _)
load_lines(lines, i, temp_last_addr, mem) ==
    IF i >= Len(lines) THEN mem
    ELSE IF lines[i + 1] = BlankLine THEN load_lines(lines, i + 1, temp_last_addr, mem)
    ELSE LET addr == IF i = 0 THEN 0 ELSE temp_last_addr + 4
         IN  load_lines(lines, i + 1, addr,
                 [a \in DOMAIN mem \cup {addr} |->
                     IF a = addr THEN lines[i + 1] ELSE mem[a]])

\* ------------------------------------------------------------------- state
VARIABLES
    imem,           \* instruction memory: address -> instruction
    pc,             \* self.pc
    pc_src_mux,     \* the PC multiplexer
    registers,      \* the register file x0..x31
    read_data_1,    \* the register read port 1 selects (NoReg: not yet set)
    read_data_2,    \* the register read port 2 selects
    ex_mux,         \* the multiplexer of the second ALU operand
    alu,            \* the ALU
    pc_src,         \* self._pc_src
    wb_mux,         \* the write-back multiplexer
    wb_rd,          \* self._wb_rd
    data_mem,       \* the bytes of data_memory.bin
    bus_if_id, bus_id_ex, bus_ex_mem, bus_mem_wb,   \* the four pipeline buses
    cycle_counter,  \* self._cycle_counter
    loaded,         \* whether load_program has run
    hist,           \* one record per cycle() call made so far, in order
    probe           \* the last call made on a unit directly, with its outcome

vars == <<imem, pc, pc_src_mux, registers, read_data_1, read_data_2, ex_mux, alu,
          pc_src, wb_mux, wb_rd, data_mem, bus_if_id, bus_id_ex, bus_ex_mem,
          bus_mem_wb, cycle_counter, loaded, hist, probe>>

\* the simulator's own state: everything but the record of direct unit calls
sim_vars == <<imem, pc, pc_src_mux, registers, read_data_1, read_data_2, ex_mux,
              alu, pc_src, wb_mux, wb_rd, data_mem, bus_if_id, bus_id_ex,
              bus_ex_mem, bus_mem_wb, cycle_counter, loaded, hist>>

\* no unit has been called directly
NoProbe == [op |-> "none"]

\* RiscV.__init__ and _init_rv, with a data_memory.bin newly created
Init ==
    /\ imem = << >>
    /\ pc = 0
    /\ pc_src_mux = MUX1(0, 0)
    /\ registers = RegisterFile
    /\ read_data_1 = NoReg
    /\ read_data_2 = NoReg
    /\ ex_mux = MUX1(Fresh(0), Fresh(0))
    /\ alu = ALU
    /\ pc_src = FALSE
    /\ wb_mux = MUX1(Word(0), Word(0))
    /\ wb_rd = 0
    /\ data_mem = << >>
    /\ bus_if_id = InitBusIfId
    /\ bus_id_ex = InitBusIdEx
    /\ bus_ex_mem = InitBusExMem
    /\ bus_mem_wb = InitBusMemWb
    /\ cycle_counter = 1
    /\ loaded = FALSE
    /\ hist = << >>
    /\ probe = NoProbe

\* RegisterFile.write_data called on the simulator's register file from
\* outside cycle(): by the test that embeds the simulator
write_register ==
    /\ \E r \in PresetRegs, v \in PresetVals :
            registers' = write_data(registers, r, Word(v))
    /\ UNCHANGED <<imem, pc, pc_src_mux, read_data_1, read_data_2, ex_mux, alu,
                   pc_src, wb_mux, wb_rd, data_mem, bus_if_id, bus_id_ex,
                   bus_ex_mem, bus_mem_wb, cycle_counter, loaded, hist, probe>>

\* a register preset before the program is loaded (the arrange step of a test)
preset_register == ~loaded /\ write_register

\* a register written between two cycle() calls
poke_register == loaded /\ write_register

\* RegisterFile.write_data called directly on any of x0..x2 before the
\* program is loaded, its outcome kept
write_data_call ==
    /\ ~loaded
    /\ \E r \in {0} \cup PresetRegs, v \in PresetVals :
        /\ registers' = write_data(registers, r, Word(v))
        /\ probe' = [op |-> "write_data", reg |-> r,
                     err |-> write_data_error(r, Word(v)),
                     changed |-> write_data(registers, r, Word(v)) # registers]
    /\ UNCHANGED <<imem, pc, pc_src_mux, read_data_1, read_data_2, ex_mux, alu,
                   pc_src, wb_mux, wb_rd, data_mem, bus_if_id, bus_id_ex,
                   bus_ex_mem, bus_mem_wb, cycle_counter, loaded, hist>>

\* RiscV.load_program, called once, on one of the given files
load_program_from(files) ==
    /\ ~loaded
    /\ \E file \in files : imem' = load_lines(file, 0, 0, imem)
    /\ loaded' = TRUE
    /\ UNCHANGED <<pc, pc_src_mux, registers, read_data_1, read_data_2, ex_mux,
                   alu, pc_src, wb_mux, wb_rd, data_mem, bus_if_id, bus_id_ex,
                   bus_ex_mem, bus_mem_wb, cycle_counter, hist, probe>>

load_program == load_program_from(Files)

load_extra_program == load_program_from(ExtraFiles)

load_branch_program == load_program_from(BranchFiles)

\* the bus cycle() hands to a stage: the one latched when the call began, not
\* the one a stage produced earlier in the same call
stage_input_same_call(latched, fresh) == fresh

stage_input(latched, fresh) == latched

\* the bus a call would leave latched were the buses written before Write
\* Back is tried
commit_before_write_back(ret, latched, fresh) ==
    IF ret \in {"True", "False"} THEN fresh ELSE latched

\* the bus a call leaves latched: the new one only at the end of a call that
\* reaches the commit
commit(ret, latched, fresh) == IF ret = "True" THEN fresh ELSE latched

\* RiscV.cycle: IF, ID, EX, MEM, WB in this order on the latched buses; an
\* error a stage raises ends the call there, with what ran before it done;
\* the ValueError of WB on the sentinel makes the call return False
cycle ==
    /\ loaded
    /\ Len(hist) < MaxCalls
    /\ \E f \in {instruction_fetch(pc_src_mux, imem)} :
       \E d \in {instruction_decode(stage_input(bus_if_id, f.bus), bus_mem_wb,
                                    registers, read_data_1, read_data_2, wb_mux)} :
       \E e \in {IF d.err # ""
                 THEN [err |-> "", bus |-> NotRun, alu |-> alu, mux |-> ex_mux]
                 ELSE execute(stage_input(bus_id_ex, d.bus), alu, ex_mux, d.regs)} :
       \E m \in {IF d.err = "" /\ e.err = ""
                 THEN memory_access(stage_input(bus_ex_mem, e.bus), f.mux, pc_src,
                                    e.alu, data_mem, d.regs)
                 ELSE [err |-> "", bus |-> NotRun, mux |-> f.mux,
                       pc_src |-> pc_src, mem |-> data_mem, wr |-> NoMemWrite]} :
       \E raised \in {IF d.err # "" THEN d.err
                      ELSE IF e.err # "" THEN e.err ELSE m.err} :
       \E in_wb \in {IF raised = "" THEN stage_input(bus_mem_wb, m.bus)
                     ELSE NotRun} :
       \E w \in {IF raised = "" THEN write_back(in_wb, wb_mux, wb_rd)
                 ELSE [mux |-> wb_mux, wb_rd |-> wb_rd]} :
       \E ret \in {IF raised # "" THEN raised
                   ELSE IF write_back_error(in_wb) THEN "False"
                   ELSE "True"} :
           /\ pc' = f.pc
           /\ pc_src_mux' = m.mux
           /\ registers' = d.regs
           /\ read_data_1' = d.port1
           /\ read_data_2' = d.port2
           /\ ex_mux' = e.mux
           /\ alu' = e.alu
           /\ pc_src' = m.pc_src
           /\ data_mem' = m.mem
           /\ wb_mux' = w.mux
           /\ wb_rd' = w.wb_rd
           /\ bus_if_id' = commit(ret, bus_if_id, f.bus)
           /\ bus_id_ex' = commit(ret, bus_id_ex, d.bus)
           /\ bus_ex_mem' = commit(ret, bus_ex_mem, e.bus)
           /\ bus_mem_wb' = commit(ret, bus_mem_wb, m.bus)
           /\ cycle_counter' = IF ret = "True" THEN cycle_counter + 1
                               ELSE cycle_counter
           /\ hist' = Append(hist,
                [ret |-> ret, fetch_pc |-> f.pc,
                 in_if_id |-> stage_input(bus_if_id, f.bus),
                 in_id_ex |-> IF d.err # "" THEN NotRun
                              ELSE stage_input(bus_id_ex, d.bus),
                 in_ex_mem |-> IF d.err = "" /\ e.err = ""
                               THEN stage_input(bus_ex_mem, e.bus) ELSE NotRun,
                 in_mem_wb |-> in_wb,
                 dec_mem_wb |-> bus_mem_wb,
                 out_if_id |-> f.bus, out_id_ex |-> d.bus,
                 out_ex_mem |-> e.bus, out_mem_wb |-> m.bus,
                 reg_write |-> d.wr, mem_write |-> m.wr,
                 regs_changed |-> d.regs # registers,
                 mem_changed |-> m.mem # data_mem,
                 ports_changed |-> <<d.port1, d.port2>> # <<read_data_1, read_data_2>>,
                 alu_changed |-> e.alu # alu,
                 ex_mux_changed |-> e.mux # ex_mux,
                 mem_mux_changed |-> m.mux # f.mux,
                 pc_src_changed |-> m.pc_src # pc_src,
                 pc_src |-> m.pc_src,
                 buses_changed |->
                    <<commit(ret, bus_if_id, f.bus), commit(ret, bus_id_ex, d.bus),
                      commit(ret, bus_ex_mem, e.bus), commit(ret, bus_mem_wb, m.bus)>>
                        # <<bus_if_id, bus_id_ex, bus_ex_mem, bus_mem_wb>>,
                 counter_changed |-> ret = "True",
                 opcode_error |->
                    /\ stage_input(bus_if_id, f.bus) # Empty
                    /\ opcode_not_recognized(IntOfBits(Slice(
                            stage_input(bus_if_id, f.bus).instruction, 25, 32))),
                 op_a |-> e.alu.a, op_b |-> e.alu.b])
    /\ UNCHANGED <<imem, loaded, probe>>

Next == preset_register \/ load_program \/ cycle

Spec == Init /\ [][Next]_vars

\* ------------------------------------------------- units called directly
\* the lengths of the digit strings Decode hands to imm_gen: 8 (no format
\* matched), 12 (I-type and S-type) and 13 (B-type)
ImmWidths == {8, 12, 13}

\* 2 ** k
RECURSIVE Pow2(_)
Pow2(k) == IF k = 0 THEN 1 ELSE 2 * Pow2(k - 1)

\* RiscV.imm_gen called on a string of binary digits
imm_gen_call ==
    /\ probe = NoProbe
    /\ \E w \in ImmWidths : \E n \in 0..(Pow2(w) - 1) :
            probe' = [op |-> "imm_gen", imm |-> Bits(n, w),
                      result |-> imm_gen(Bits(n, w))]
    /\ UNCHANGED sim_vars

SpecImmGen == Init /\ [][imm_gen_call]_vars

\* ControlUnit().set_opcode called on a 7-bit opcode
set_opcode_call ==
    /\ probe = NoProbe
    /\ \E opcode \in 0..(Pow2(7) - 1) :
            probe' = [op |-> "set_opcode", opcode |-> opcode,
                      result |-> set_opcode(opcode)]
    /\ UNCHANGED sim_vars

SpecControlUnit == Init /\ [][set_opcode_call]_vars

\* ALU().alu_control called directly on every alu_op, funct3 and funct7
alu_control_call ==
    /\ probe = NoProbe
    /\ \E op1 \in BOOLEAN, op2 \in BOOLEAN :
       \E funct3 \in 0..(Pow2(3) - 1), funct7 \in 0..(Pow2(7) - 1) :
       \E cs \in {[ControlUnit EXCEPT !.alu_op = <<op1, op2>>]} :
            probe' = [op |-> "alu_control", alu_op |-> <<op1, op2>>,
                      funct3 |-> funct3, funct7 |-> funct7,
                      err |-> IF alu_control_error(cs, funct3, funct7)
                              THEN "ValueError" ELSE "",
                      control |-> alu_control(ALU, cs, funct3, funct7).control]
    /\ UNCHANGED sim_vars

\* the operands of the direct ALU calls: 32-bit signed values, the largest
\* and the smallest among them
AluWords == {0, 1, -1, 5, 2147483647, -2147483647 - 1}

\* ALU.do_op called directly with an operation code and two operands set
do_op_call ==
    /\ probe = NoProbe
    /\ \E control \in 0..(Pow2(4) - 1), a \in AluWords, b \in AluWords :
       \E unit \in {[ALU EXCEPT !.control = control, !.a = a, !.b = b]} :
            probe' = [op |-> "do_op", control |-> control, a |-> a, b |-> b,
                      err |-> IF do_op_error(unit) THEN "ValueError" ELSE "",
                      half |-> IF do_op_error(unit) THEN 0 ELSE do_op_half(unit),
                      odd |-> IF do_op_error(unit) THEN 0 ELSE do_op_odd(unit)]
    /\ UNCHANGED sim_vars

SpecAlu == Init /\ [][alu_control_call \/ do_op_call]_vars

\* the number of direct calls recorded so far
ProbeCount == IF probe = NoProbe THEN 0 ELSE probe.n

\* the 32-bit signed words written by direct Data Memory calls: 42, -1, the
\* largest and the smallest
MemWords == {42, -1, 2147483647, -2147483647 - 1}

\* DataMemory.write called directly; what every address read before the call
\* is kept
dmem_write_call ==
    /\ ProbeCount < MaxOps
    /\ \E address \in 0..MaxAddr, data \in MemWords :
        /\ data_mem' = dmem_write(data_mem, address, data)
        /\ probe' = [op |-> "write", n |-> ProbeCount + 1,
                     address |-> address, data |-> data,
                     reads_before |-> [b \in 0..MaxAddr |-> dmem_read(data_mem, b)]]
    /\ UNCHANGED <<imem, pc, pc_src_mux, registers, read_data_1, read_data_2,
                   ex_mux, alu, pc_src, wb_mux, wb_rd, bus_if_id, bus_id_ex,
                   bus_ex_mem, bus_mem_wb, cycle_counter, loaded, hist>>

\* DataMemory.read called directly; the call made just before it is kept
dmem_read_call ==
    /\ ProbeCount < MaxOps
    /\ \E address \in 0..MaxAddr :
          probe' = [op |-> "read", n |-> ProbeCount + 1, address |-> address,
                    result |-> dmem_read(data_mem, address),
                    prev_op |-> probe.op,
                    prev_address |-> IF probe.op = "write" THEN probe.address ELSE 0,
                    prev_data |-> IF probe.op = "write" THEN probe.data ELSE 0]
    /\ UNCHANGED sim_vars

SpecDataMemory == Init /\ [][dmem_write_call \/ dmem_read_call]_vars

\* the values written to a multiplexer directly, and the select arguments:
\* every slot of both multiplexers and one index on either side
MuxVals == {5, 7}
MuxSelects == -1..3

\* the MUX1 and the MUX2 that direct calls are made on, as constructed with
\* no arguments before the first call
Mux1Now == IF probe = NoProbe THEN MUX1(0, 0) ELSE probe.mux1
Mux2Now == IF probe = NoProbe THEN MUX2(0, 0, 0) ELSE probe.mux2
MuxCalls == IF probe = NoProbe THEN << >> ELSE probe.calls

\* the record of direct multiplexer calls after one more call
MuxProbe(m1, m2, call) ==
    [op |-> "mux", n |-> ProbeCount + 1, mux1 |-> m1, mux2 |-> m2,
     calls |-> Append(MuxCalls, call)]

\* MUX1.write called directly
mux_write_call ==
    /\ ProbeCount < MaxOps
    /\ \E value \in MuxVals, select \in MuxSelects :
          probe' = MuxProbe(mux_write(Mux1Now, value, select), Mux2Now,
                            [unit |-> "MUX1", op |-> "write", value |-> value,
                             select |-> select, err |-> "", result |-> 0,
                             before |-> Mux1Now,
                             after |-> mux_write(Mux1Now, value, select)])
    /\ UNCHANGED sim_vars

\* MUX1.set_select called directly
mux_set_select_call ==
    /\ ProbeCount < MaxOps
    /\ \E select \in MuxSelects :
          probe' = MuxProbe(mux_set_select(Mux1Now, select), Mux2Now,
                            [unit |-> "MUX1", op |-> "set_select", value |-> 0,
                             select |-> select,
                             err |-> IF mux_select_error(select)
                                     THEN "ValueError" ELSE "",
                             result |-> 0, before |-> Mux1Now,
                             after |-> mux_set_select(Mux1Now, select)])
    /\ UNCHANGED sim_vars

\* MUX1.read called directly
mux_read_call ==
    /\ ProbeCount < MaxOps
    /\ probe' = MuxProbe(Mux1Now, Mux2Now,
                         [unit |-> "MUX1", op |-> "read", value |-> 0,
                          select |-> 0, err |-> "", result |-> mux_read(Mux1Now),
                          before |-> Mux1Now, after |-> Mux1Now])
    /\ UNCHANGED sim_vars

\* MUX2.write called directly
mux2_write_call ==
    /\ ProbeCount < MaxOps
    /\ \E value \in MuxVals, select \in MuxSelects :
          probe' = MuxProbe(Mux1Now, mux2_write(Mux2Now, value, select),
                            [unit |-> "MUX2", op |-> "write", value |-> value,
                             select |-> select, err |-> "", result |-> 0,
                             before |-> Mux2Now,
                             after |-> mux2_write(Mux2Now, value, select)])
    /\ UNCHANGED sim_vars

\* MUX2.set_select called directly
mux2_set_select_call ==
    /\ ProbeCount < MaxOps
    /\ \E select \in MuxSelects :
          probe' = MuxProbe(Mux1Now, mux2_set_select(Mux2Now, select),
                            [unit |-> "MUX2", op |-> "set_select", value |-> 0,
                             select |-> select,
                             err |-> IF mux2_select_error(select)
                                     THEN "ValueError" ELSE "",
                             result |-> 0, before |-> Mux2Now,
                             after |-> mux2_set_select(Mux2Now, select)])
    /\ UNCHANGED sim_vars

\* MUX2.read called directly
mux2_read_call ==
    /\ ProbeCount < MaxOps
    /\ probe' = MuxProbe(Mux1Now, Mux2Now,
                         [unit |-> "MUX2", op |-> "read", value |-> 0,
                          select |-> 0, err |-> "", result |-> mux2_read(Mux2Now),
                          before |-> Mux2Now, after |-> Mux2Now])
    /\ UNCHANGED sim_vars

NextMux ==
    \/ mux_write_call \/ mux_set_select_call \/ mux_read_call
    \/ mux2_write_call \/ mux2_set_select_call \/ mux2_read_call

SpecMux == Init /\ [][NextMux]_vars

\* RiscV.load_program called on a fresh simulator, the file it was given kept
load_program_call ==
    /\ probe = NoProbe
    /\ ~loaded
    /\ \E file \in Files :
        /\ imem' = load_lines(file, 0, 0, imem)
        /\ probe' = [op |-> "load_program", file |-> file]
    /\ loaded' = TRUE
    /\ UNCHANGED <<pc, pc_src_mux, registers, read_data_1, read_data_2, ex_mux,
                   alu, pc_src, wb_mux, wb_rd, data_mem, bus_if_id, bus_id_ex,
                   bus_ex_mem, bus_mem_wb, cycle_counter, hist>>

SpecLoad == Init /\ [][load_program_call]_vars

\* the simulator with a register file that is also written between calls
NextPoke == preset_register \/ load_program \/ cycle \/ poke_register

SpecPoke == Init /\ [][NextPoke]_vars

\* the simulator on the second set of program files
NextExtra == write_data_call \/ load_extra_program \/ cycle

SpecExtra == Init /\ [][NextExtra]_vars

\* the simulator on the third set of program files
NextBranch == preset_register \/ load_branch_program \/ cycle

SpecBranch == Init /\ [][NextBranch]_vars

\* ------------------------------------------------------- reading the calls
\* a bus that carries an instruction: not the sentinel {}, and the stage ran
IsBus(b) == b # Empty /\ b # NotRun

Calls == 1..Len(hist)

\* the four bus attributes as they stand after call k: what the last call up
\* to k that returned True produced, _init_rv's bubbles when there is none
RECURSIVE Latched(_)
Latched(k) ==
    IF k = 0 THEN [if_id |-> InitBusIfId, id_ex |-> InitBusIdEx,
                   ex_mem |-> InitBusExMem, mem_wb |-> InitBusMemWb]
    ELSE IF hist[k].ret = "True"
         THEN [if_id |-> hist[k].out_if_id, id_ex |-> hist[k].out_id_ex,
               ex_mem |-> hist[k].out_ex_mem, mem_wb |-> hist[k].out_mem_wb]
         ELSE Latched(k - 1)

\* ----------------------------------------------------------------- claims
\* C1: in every cycle() call each of Decode, EX, MEM and WB consumes the bus
\* its upstream stage produced in the preceding cycle (the call before it
\* that returned True and so committed its buses; the initial bus when there
\* is none), never a bus produced earlier in the same call, and the four bus
\* attributes change together and only at the end of a call that returns
\* True.
C1_BusLatch ==
    /\ \A k \in Calls :
        /\ hist[k].in_if_id = Latched(k - 1).if_id
        /\ hist[k].in_id_ex \in {NotRun, Latched(k - 1).id_ex}
        /\ hist[k].in_ex_mem \in {NotRun, Latched(k - 1).ex_mem}
        /\ hist[k].in_mem_wb \in {NotRun, Latched(k - 1).mem_wb}
        /\ hist[k].ret = "True" => /\ hist[k].in_id_ex # NotRun
                                   /\ hist[k].in_ex_mem # NotRun
                                   /\ hist[k].in_mem_wb # NotRun
    /\ <<bus_if_id, bus_id_ex, bus_ex_mem, bus_mem_wb>>
        = <<Latched(Len(hist)).if_id, Latched(Len(hist)).id_ex,
            Latched(Len(hist)).ex_mem, Latched(Len(hist)).mem_wb>>

\* a call returned True in which every stage consumed an instruction other
\* than the bubble, each stage a different one from the bus it produced
C1_Witness ==
    \E k \in Calls :
        /\ hist[k].ret = "True"
        /\ IsBus(hist[k].in_mem_wb) /\ IsBus(hist[k].in_ex_mem)
        /\ IsBus(hist[k].in_id_ex) /\ IsBus(hist[k].in_if_id)
        /\ IsBus(hist[k].out_if_id)
        /\ hist[k].in_mem_wb.instruction # NopInstruction
        /\ hist[k].in_ex_mem.instruction # hist[k].in_mem_wb.instruction
        /\ hist[k].in_id_ex.instruction # hist[k].in_ex_mem.instruction
        /\ hist[k].in_if_id.instruction # hist[k].in_id_ex.instruction
        /\ hist[k].out_if_id.instruction # hist[k].in_if_id.instruction

\* C2: whenever MEM processes an EX/MEM bus whose mem_write is set, the Data
\* Memory write it performs goes to the address in that bus's alu_result
\* field and stores that bus's rs2 value.
C2_StoreAddress ==
    \A k \in Calls :
        (IsBus(hist[k].in_ex_mem) /\ hist[k].in_ex_mem.control.mem_write)
            => /\ hist[k].mem_write.tried
               /\ hist[k].mem_write.address = hist[k].in_ex_mem.alu_result.v
               /\ hist[k].mem_write.data = hist[k].in_ex_mem.rr_2.val

\* the value the write-back stage selects for the instruction on a MEM/WB bus
WriteBackValue(mem_wb) ==
    IF mem_wb.control.mem_to_reg THEN mem_wb.dmem_read_data.v
    ELSE mem_wb.alu_result.v

\* C3: whenever Decode is handed a MEM/WB bus with reg_write set and rd # 0,
\* it writes register rd, and the value it writes is the write-back value of
\* the instruction on that bus: its dmem_read_data when mem_to_reg is set,
\* its alu_result otherwise.
C3_WriteValue ==
    \A k \in Calls :
        (/\ IsBus(hist[k].in_if_id) /\ IsBus(hist[k].dec_mem_wb)
         /\ hist[k].dec_mem_wb.control.reg_write
         /\ hist[k].dec_mem_wb.rd # 0)
            => /\ hist[k].reg_write.ok
               /\ hist[k].reg_write.rd = hist[k].dec_mem_wb.rd
               /\ hist[k].reg_write.value.v = WriteBackValue(hist[k].dec_mem_wb)

Rs1Of(instruction) == IntOfBits(Slice(instruction, 12, 17))

Rs2Of(instruction) == IntOfBits(Slice(instruction, 7, 12))

\* C5: when the MEM/WB bus handed to Decode has reg_write set and rd = r # 0
\* and the instruction being decoded names r as rs1 or rs2, the ID/EX bus
\* Decode produces carries for that source the value just written.
C5_WriteBeforeRead ==
    \A k \in Calls :
        (/\ IsBus(hist[k].in_if_id) /\ IsBus(hist[k].dec_mem_wb)
         /\ hist[k].dec_mem_wb.control.reg_write
         /\ hist[k].dec_mem_wb.rd # 0)
            => /\ Rs1Of(hist[k].in_if_id.instruction) = hist[k].dec_mem_wb.rd
                    => /\ IsBus(hist[k].out_id_ex)
                       /\ hist[k].out_id_ex.rr_1.val
                            = WriteBackValue(hist[k].dec_mem_wb)
               /\ Rs2Of(hist[k].in_if_id.instruction) = hist[k].dec_mem_wb.rd
                    => /\ IsBus(hist[k].out_id_ex)
                       /\ hist[k].out_id_ex.rr_2.val
                            = WriteBackValue(hist[k].dec_mem_wb)

\* the run has halted: the last call returned False, no call before it did
Halted ==
    /\ Len(hist) > 0 /\ hist[Len(hist)].ret = "False"
    /\ \A j \in 1..(Len(hist) - 1) : hist[j].ret = "True"

\* a straight-line program: no line of the file was blank, so the words lie
\* at 0, 4, 8, ..., and none of them is a branch
StraightLine ==
    /\ DOMAIN imem = {4 * i : i \in 0..(Cardinality(DOMAIN imem) - 1)}
    /\ \A a \in DOMAIN imem : IntOfBits(Slice(imem[a], 25, 32)) # OpBranch

\* instruction word w has gone through the write-back stage
Completed(w) ==
    \E k \in Calls :
        /\ hist[k].ret = "True"
        /\ IsBus(hist[k].in_mem_wb) /\ hist[k].in_mem_wb.instruction = w

\* the program holds no instruction with the opcode
NoOpcode(opcode) ==
    \A a \in DOMAIN imem : IntOfBits(Slice(imem[a], 25, 32)) # opcode

\* C6: once an add x3,x1,x2 has gone through the pipeline and the program
\* has halted (no other instruction of the program writing x1, x2 or x3),
\* x3 holds x1 + x2.
C6_AddResult ==
    (Halted /\ Completed(InstrAdd) /\ NoOpcode(OpLoad))
        => registers[3] = registers[1] + registers[2]

\* sw x1,8(x0) at some address of the program, lw x2,8(x0) right after it
StoreThenLoad ==
    \E a \in DOMAIN imem :
        /\ imem[a] = InstrSw
        /\ a + 4 \in DOMAIN imem /\ imem[a + 4] = InstrLw

\* C7: once a sw x1,8(x0) followed by lw x2,8(x0) have both gone through
\* the pipeline and the program has halted, x2 holds the value of x1.
C7_StoreLoadRoundTrip ==
    (Halted /\ StoreThenLoad /\ Completed(InstrSw) /\ Completed(InstrLw))
        => registers[2] = registers[1]

\* C8: when MEM processes a non-sentinel EX/MEM bus, the next call's Fetch
\* takes that bus's branch target (the branch's pc + imm) as its PC when the
\* bus has ZERO and control.branch both set, and the previous fetch's PC + 4
\* otherwise.
C8_BranchResolution ==
    \A k \in Calls :
        /\ (IsBus(hist[k].in_id_ex) /\ IsBus(hist[k].out_ex_mem))
            => hist[k].out_ex_mem.offset
                 = hist[k].in_id_ex.pc + hist[k].in_id_ex.imm
        /\ (k + 1 \in Calls /\ IsBus(hist[k].in_ex_mem))
            => hist[k + 1].fetch_pc
                 = IF hist[k].in_ex_mem.ZERO /\ hist[k].in_ex_mem.control.branch
                   THEN hist[k].in_ex_mem.offset
                   ELSE hist[k].fetch_pc + 4

\* MEM processed a taken branch and the next fetch went to its target, which
\* was not the sequential address
C8_Witness ==
    \E k \in Calls :
        /\ k + 1 \in Calls /\ IsBus(hist[k].in_ex_mem)
        /\ hist[k].in_ex_mem.control.branch /\ hist[k].in_ex_mem.ZERO
        /\ hist[k].in_ex_mem.offset # hist[k].fetch_pc + 4
        /\ hist[k + 1].fetch_pc = hist[k].in_ex_mem.offset

\* call t is the first whose Fetch found no instruction at the PC
FirstMiss(t) ==
    /\ t \in Calls /\ hist[t].out_if_id = Empty
    /\ \A j \in 1..(t - 1) : hist[j].out_if_id # Empty

\* C9: for a straight-line program, when Fetch first finds no instruction
\* in call t (t = n + 1 for n instructions), every call up to t+3 returns
\* True, calls t..t+3 put the sentinel on IF/ID, ID/EX, EX/MEM and MEM/WB in
\* turn, and call t+4 is the first to return False.
C9_HaltTiming ==
    \A t \in Calls :
        (StraightLine /\ FirstMiss(t)) =>
            /\ \A j \in Calls : j <= t + 3 => hist[j].ret = "True"
            /\ t + 1 \in Calls => hist[t + 1].out_id_ex = Empty
            /\ t + 2 \in Calls => hist[t + 2].out_ex_mem = Empty
            /\ t + 3 \in Calls => hist[t + 3].out_mem_wb = Empty
            /\ t + 4 \in Calls => hist[t + 4].ret = "False"

\* the control signal reg_write the control unit gives instruction word w
RegWriteOf(w) == set_opcode(IntOfBits(Slice(w, 25, 32))).reg_write

RdOf(w) == IntOfBits(Slice(w, 20, 25))

\* C10: when cycle() first returns False on a straight-line program, every
\* instruction that was fetched with reg_write set and rd # 0 has had its
\* register write applied by Decode.
C10_DrainComplete ==
    (Halted /\ StraightLine) =>
        \A k \in Calls :
            (/\ IsBus(hist[k].out_if_id)
             /\ RegWriteOf(hist[k].out_if_id.instruction)
             /\ RdOf(hist[k].out_if_id.instruction) # 0)
                => \E j \in Calls :
                    /\ j > k
                    /\ hist[j].reg_write.ok
                    /\ IsBus(hist[j].dec_mem_wb)
                    /\ hist[j].dec_mem_wb.instruction = hist[k].out_if_id.instruction
                    /\ hist[j].reg_write.rd = RdOf(hist[k].out_if_id.instruction)

\* every word of the program is one the decode table covers: an opcode of
\* the table, an R-type function code ALU control maps, rd # 0 with reg_write
WellFormedProgram ==
    \A a \in DOMAIN imem :
        /\ IntOfBits(Slice(imem[a], 25, 32))
                \in {OpRType, OpLoad, OpStore, OpBranch, OpAddi}
        /\ ~alu_control_error(set_opcode(IntOfBits(Slice(imem[a], 25, 32))),
                              IntOfBits(Slice(imem[a], 17, 20)),
                              IntOfBits(Slice(imem[a], 0, 7)))
        /\ RegWriteOf(imem[a]) => RdOf(imem[a]) # 0

\* C11: with a program made of well-formed instructions only, every cycle()
\* call returns True or returns False; none ends with an unhandled error.
C11_NoUnhandledError ==
    WellFormedProgram => \A k \in Calls : hist[k].ret \in {"True", "False"}

\* C12: register x0 reads as zero in every state; every write_data call on
\* register 0, made by Decode inside cycle() or made directly, fails with a
\* ValueError that reaches the caller (cycle() ends with it) and leaves all
\* the registers as they were.
C12_ZeroRegister ==
    /\ registers[0] = 0
    /\ \A k \in Calls :
        (hist[k].reg_write.tried /\ hist[k].reg_write.rd = 0)
            => /\ hist[k].ret = "ValueError"
               /\ ~hist[k].reg_write.ok
               /\ ~hist[k].regs_changed
    /\ (probe.op = "write_data" /\ probe.reg = 0)
            => probe.err = "ValueError" /\ ~probe.changed

\* x0 was written directly, and Decode then attempted the register write of
\* an add x0,x1,x2 inside a cycle() call
C12_Witness ==
    /\ probe.op = "write_data" /\ probe.reg = 0
    /\ \E k \in Calls :
        /\ hist[k].reg_write.tried /\ hist[k].reg_write.rd = 0
        /\ hist[k].dec_mem_wb.instruction = InstrAddX0
        /\ registers[1] # 0

\* the two's-complement value of a string of binary digits
TwosComplement(bits) ==
    IntOfBits(bits) - (IF bits[1] = 1 THEN Pow2(Len(bits)) ELSE 0)

\* C13: for every string of 8, 12 or 13 binary digits imm_gen returns the
\* Word whose signed value is the string's two's-complement value:
\* 000000000101 gives 5 and 111111111011 gives -5.
C13_SignExtension ==
    probe.op = "imm_gen" => probe.result = TwosComplement(probe.imm)

\* C14: a Data Memory read of address a made right after a write of word w
\* to address a returns w, for every address a >= 0 and every 32-bit signed
\* word w.
C14_MemoryRoundTrip ==
    (probe.op = "read" /\ probe.prev_op = "write"
        /\ probe.prev_address = probe.address)
            => probe.result = probe.prev_data

\* 42 was written to address 3 of a file that already held words, and read
\* back at once
C14_Witness ==
    /\ probe.op = "read" /\ probe.n = 3 /\ probe.prev_op = "write"
    /\ probe.address = 3 /\ probe.prev_address = 3 /\ probe.prev_data = 42
    /\ probe.result = 42
    /\ Len(data_mem) = 7 /\ data_mem[1] # 0

\* C15: Data Memory is word-addressed: write(a, w) puts the 4 bytes of w at
\* byte offset 4*a, and for every address b # a the value read(b) returns is
\* the one it returned before the write.
C15_WordAddressed ==
    probe.op = "write" =>
        /\ SubSeq(data_mem, 4 * probe.address + 1, 4 * probe.address + 4)
                = ToBytesLittle(probe.data)
        /\ \A b \in 0..MaxAddr :
                b # probe.address
                    => dmem_read(data_mem, b) = probe.reads_before[b]

\* the rows of the control table: <<alu_src, reg_write, mem_read, mem_write,
\* branch, alu_op>>, and mem_to_reg where the table gives one
TableRow(opcode) ==
    IF opcode = OpRType THEN <<FALSE, TRUE, FALSE, FALSE, FALSE, <<FALSE, TRUE>>>>
    ELSE IF opcode = OpLoad THEN <<TRUE, TRUE, TRUE, FALSE, FALSE, <<FALSE, FALSE>>>>
    ELSE IF opcode = OpStore THEN <<TRUE, FALSE, FALSE, TRUE, FALSE, <<FALSE, FALSE>>>>
    ELSE IF opcode = OpBranch THEN <<FALSE, FALSE, FALSE, FALSE, TRUE, <<TRUE, FALSE>>>>
    ELSE <<TRUE, TRUE, FALSE, FALSE, FALSE, <<FALSE, FALSE>>>>

TableMemToReg(opcode) ==
    IF opcode = OpLoad THEN {TRUE}
    ELSE IF opcode \in {OpRType, OpAddi} THEN {FALSE}
    ELSE {TRUE, FALSE}

\* C16: for each of the five opcodes of the control table set_opcode on a
\* fresh unit gives the signals of the table's row (mem_to_reg where the row
\* gives one), a branch getting branch = T and alu_op (T,F); and for any
\* opcode at most one of mem_read, mem_write and branch is true.
C16_ControlTable ==
    probe.op = "set_opcode" =>
        /\ probe.opcode \in {OpRType, OpLoad, OpStore, OpBranch, OpAddi}
            => /\ <<probe.result.alu_src, probe.result.reg_write,
                    probe.result.mem_read, probe.result.mem_write,
                    probe.result.branch, probe.result.alu_op>>
                        = TableRow(probe.opcode)
               /\ probe.result.mem_to_reg \in TableMemToReg(probe.opcode)
        /\ Cardinality({x \in {"mem_read", "mem_write", "branch"} :
                            probe.result[x]}) <= 1

\* set_opcode was called with the branch opcode
C16_Witness ==
    /\ probe.op = "set_opcode" /\ probe.opcode = OpBranch
    /\ probe.result.branch /\ probe.result.alu_op = <<TRUE, FALSE>>

\* C17: ALU control selects SUB when alu_op is (T,_), ADD when it is (F,F);
\* when it is (F,T) it selects SUB for funct7 0100000, otherwise ADD for
\* funct3 000, AND for 111, OR for 110, and fails with a ValueError for any
\* other funct3.
C17_AluControl ==
    probe.op = "alu_control" =>
        IF probe.alu_op[1] THEN probe.err = "" /\ probe.control = AluSub
        ELSE IF ~probe.alu_op[2] THEN probe.err = "" /\ probe.control = AluAdd
        ELSE IF probe.funct7 = Funct7Sub
            THEN probe.err = "" /\ probe.control = AluSub
        ELSE IF probe.funct3 = Funct3Add
            THEN probe.err = "" /\ probe.control = AluAdd
        ELSE IF probe.funct3 = Funct3And
            THEN probe.err = "" /\ probe.control = AluAnd
        ELSE IF probe.funct3 = Funct3Or
            THEN probe.err = "" /\ probe.control = AluOr
        ELSE probe.err = "ValueError"

\* ALU control was called for an R-type word with funct3 111 (AND)
C17_Witness ==
    /\ probe.op = "alu_control" /\ probe.alu_op = <<FALSE, TRUE>>
    /\ probe.funct7 = 0 /\ probe.funct3 = Funct3And
    /\ probe.control = AluAnd

\* C18: each of ADD, SUB, AND, OR and SLT is selected by ALU control for
\* some (alu_op, funct3, funct7): for an R-type SLT word (alu_op (F,T),
\* funct7 0000000, funct3 010) ALU control selects SLT, the operation that
\* gives 1 if rs1 < rs2 and 0 otherwise.
C18_SltSelected ==
    (/\ probe.op = "alu_control" /\ probe.alu_op = <<FALSE, TRUE>>
     /\ probe.funct7 = 0 /\ probe.funct3 = 2)
        => probe.err = "" /\ probe.control = AluSlt

\* C19: the result of every ALU operation on two 32-bit operands lies in
\* [-2^31, 2^31 - 1] (its half in [-2^30, 2^30 - 1]): ADD and SUB wrap.
C19_Wraps32 ==
    (probe.op = "do_op" /\ probe.err = "")
        => probe.half >= -1073741824 /\ probe.half <= 1073741823

\* C20: for both multiplexers, read() right after write(v, s) and
\* set_select(s), s a slot of the multiplexer, returns v; write(v, s) leaves
\* the other slots and the select as they were; set_select(i), i no slot of
\* the multiplexer, raises and leaves the select as it was.
SlotsOf(unit) == IF unit = "MUX1" THEN 0..1 ELSE 0..2
SlotValue(m, slot) ==
    IF slot = 0 THEN m.input0 ELSE IF slot = 1 THEN m.input1 ELSE m.input2
C20_Multiplexer ==
    probe.op = "mux" =>
        /\ \A i \in 1..(Len(probe.calls) - 2) :
              (/\ probe.calls[i].op = "write"
               /\ probe.calls[i].select \in SlotsOf(probe.calls[i].unit)
               /\ probe.calls[i + 1].op = "set_select"
               /\ probe.calls[i + 1].unit = probe.calls[i].unit
               /\ probe.calls[i + 1].select = probe.calls[i].select
               /\ probe.calls[i + 2].op = "read"
               /\ probe.calls[i + 2].unit = probe.calls[i].unit)
                  => /\ probe.calls[i + 1].err = ""
                     /\ probe.calls[i + 2].result = probe.calls[i].value
        /\ \A i \in 1..Len(probe.calls) :
              (/\ probe.calls[i].op = "write"
               /\ probe.calls[i].select \in SlotsOf(probe.calls[i].unit))
                  => /\ probe.calls[i].after.select = probe.calls[i].before.select
                     /\ \A slot \in SlotsOf(probe.calls[i].unit) \ {probe.calls[i].select} :
                           SlotValue(probe.calls[i].after, slot)
                               = SlotValue(probe.calls[i].before, slot)
        /\ \A i \in 1..Len(probe.calls) :
              (/\ probe.calls[i].op = "set_select"
               /\ probe.calls[i].select \notin SlotsOf(probe.calls[i].unit))
                  => /\ probe.calls[i].err = "ValueError"
                     /\ probe.calls[i].after.select = probe.calls[i].before.select

\* C20 happens: 7 written to slot 2 of the MUX2, slot 2 selected, 7 read back
C20_Witness ==
    /\ probe.op = "mux" /\ Len(probe.calls) = 3
    /\ probe.calls[1].unit = "MUX2" /\ probe.calls[1].op = "write"
    /\ probe.calls[1].value = 7 /\ probe.calls[1].select = 2
    /\ probe.calls[2].unit = "MUX2" /\ probe.calls[2].op = "set_select"
    /\ probe.calls[2].select = 2 /\ probe.calls[2].err = ""
    /\ probe.calls[3].unit = "MUX2" /\ probe.calls[3].op = "read"
    /\ probe.calls[3].result = 7

\* C21: a call in which Write Back ran on a bus: the write-back multiplexer
\* then holds the bus's dmem_read_data when mem_to_reg is set and its
\* alu_result otherwise, and _wb_rd holds the bus's rd; no register changes
\* in a call whose Decode wrote none, and Data Memory does not change in a
\* call whose MEM stored nothing, so Write Back itself writes neither.
LastCall == hist[Len(hist)]
C21_WriteBackStages ==
    /\ (/\ Len(hist) > 0 /\ LastCall.ret = "True" /\ IsBus(LastCall.in_mem_wb))
            => /\ mux_read(wb_mux)
                    = (IF LastCall.in_mem_wb.control.mem_to_reg
                       THEN LastCall.in_mem_wb.dmem_read_data
                       ELSE LastCall.in_mem_wb.alu_result)
               /\ wb_rd = LastCall.in_mem_wb.rd
    /\ \A k \in Calls :
        (hist[k].ret = "True" /\ IsBus(hist[k].in_mem_wb))
            => /\ ~hist[k].reg_write.ok => ~hist[k].regs_changed
               /\ ~hist[k].mem_write.tried => ~hist[k].mem_changed

\* C21 happens: Write Back has just staged the word a lw read from Data
\* Memory, which differs from the lw's alu_result, and the lw's rd
C21_Witness ==
    /\ Len(hist) > 0 /\ LastCall.ret = "True" /\ IsBus(LastCall.in_mem_wb)
    /\ LastCall.in_mem_wb.instruction = InstrLw
    /\ LastCall.in_mem_wb.dmem_read_data.v # LastCall.in_mem_wb.alu_result.v
    /\ mux_read(wb_mux) = LastCall.in_mem_wb.dmem_read_data
    /\ wb_rd = 2
    /\ ~LastCall.regs_changed /\ ~LastCall.mem_changed

\* C22: a stage handed the sentinel puts the sentinel on its outgoing bus and
\* changes nothing: Decode writes no register and leaves the read ports, EX
\* leaves the ALU and its multiplexer, MEM leaves the PC multiplexer, _pc_src
\* and Data Memory.
C22_SentinelPropagation ==
    \A k \in Calls :
        /\ hist[k].in_if_id = Empty
            => /\ hist[k].out_id_ex = Empty
               /\ ~hist[k].reg_write.tried /\ ~hist[k].regs_changed
               /\ ~hist[k].ports_changed
        /\ hist[k].in_id_ex = Empty
            => /\ hist[k].out_ex_mem = Empty
               /\ ~hist[k].alu_changed /\ ~hist[k].ex_mux_changed
        /\ hist[k].in_ex_mem = Empty
            => /\ hist[k].out_mem_wb = Empty
               /\ ~hist[k].mem_mux_changed /\ ~hist[k].pc_src_changed
               /\ ~hist[k].mem_write.tried /\ ~hist[k].mem_changed

\* C22 happens: MEM was handed the sentinel while the PC multiplexer still
\* selected the target of a taken branch, and Decode and EX were handed the
\* sentinel in calls that left a bus with reg_write set on MEM/WB
C22_Witness ==
    /\ \E k \in Calls : hist[k].in_ex_mem = Empty /\ pc_src_mux.select = 1
    /\ \E k \in Calls :
            /\ hist[k].in_if_id = Empty /\ IsBus(hist[k].dec_mem_wb)
            /\ hist[k].dec_mem_wb.control.reg_write
    /\ \E k \in Calls : hist[k].in_id_ex = Empty /\ hist[k].out_ex_mem = Empty

\* C23: after load_program the k-th line of the file that is not blank
\* (k = 0, 1, 2, ...) is stored at address 4*k, and nothing is stored
\* elsewhere, wherever the blank lines are.
NonBlank(file) == SelectSeq(file, LAMBDA line : line # BlankLine)
C23_LoadAddresses ==
    probe.op = "load_program"
        => /\ DOMAIN imem = {4 * k : k \in 0..(Len(NonBlank(probe.file)) - 1)}
           /\ \A k \in 0..(Len(NonBlank(probe.file)) - 1) :
                  imem[4 * k] = NonBlank(probe.file)[k + 1]

\* C24: an instruction whose opcode set_opcode does not recognize is logged
\* as an error when decoded and gets the control record with every signal
\* false; for it Decode attempts no register write, EX raises nothing, MEM
\* neither writes nor reads Data Memory nor takes a branch, and the call in
\* which it reaches Write Back returns True; a program of such instructions
\* alone, stored from address 0 on, never ends a call with an error.
UnknownOp(bus) ==
    /\ IsBus(bus)
    /\ opcode_not_recognized(IntOfBits(Slice(bus.instruction, 25, 32)))
C24_UnrecognizedOpcode ==
    /\ \A k \in Calls :
        /\ UnknownOp(hist[k].in_if_id)
            => /\ hist[k].opcode_error
               /\ IsBus(hist[k].out_id_ex) => hist[k].out_id_ex.control = ControlUnit
        /\ (UnknownOp(hist[k].dec_mem_wb) /\ hist[k].in_if_id # Empty)
            => ~hist[k].reg_write.tried /\ ~hist[k].regs_changed
        /\ UnknownOp(hist[k].in_id_ex) => IsBus(hist[k].out_ex_mem)
        /\ UnknownOp(hist[k].in_ex_mem)
            => /\ ~hist[k].mem_write.tried /\ ~hist[k].mem_changed
               /\ ~hist[k].pc_src
               /\ IsBus(hist[k].out_mem_wb)
               /\ hist[k].out_mem_wb.dmem_read_data = Word(0)
        /\ UnknownOp(hist[k].in_mem_wb) => hist[k].ret = "True"
    /\ (/\ StraightLine
        /\ \A a \in DOMAIN imem :
                opcode_not_recognized(IntOfBits(Slice(imem[a], 25, 32))))
            => \A k \in Calls : hist[k].ret \in {"True", "False"}

\* C24 happens: a fetched word of opcode 0000000 was decoded with an error
\* logged, went through EX and MEM behind a store and reached Write Back in
\* a call that returned True
C24_Witness ==
    \E k \in Calls : \E j \in 1..(k - 1) :
        /\ DOMAIN imem = {0, 4} /\ imem[0] = InstrSw /\ imem[4] = NopInstruction
        /\ IsBus(hist[j].in_if_id) /\ hist[j].in_if_id.pc = 4
        /\ hist[j].opcode_error
        /\ k = j + 3 /\ hist[k].ret = "True" /\ UnknownOp(hist[k].in_mem_wb)
        /\ hist[j + 1].mem_write.tried

\* C25: a branch word is handled without regard to its funct3: its control
\* record is that of opcode 1100011, EX subtracts, and MEM takes the branch
\* exactly when the registers it names as rs1 and rs2 hold equal values,
\* for funct3 001 (BNE) as for funct3 000 (BEQ).
IsBranch(bus) ==
    IsBus(bus) /\ IntOfBits(Slice(bus.instruction, 25, 32)) = OpBranch
Funct3Of(instruction) == IntOfBits(Slice(instruction, 17, 20))
C25_BneLikeBeq ==
    \A k \in Calls :
        /\ (IsBranch(hist[k].in_if_id) /\ IsBus(hist[k].out_id_ex))
            => hist[k].out_id_ex.control = set_opcode(OpBranch)
        /\ (IsBranch(hist[k].in_id_ex) /\ IsBus(hist[k].out_ex_mem))
            => hist[k].out_ex_mem.ZERO = (hist[k].op_a = hist[k].op_b)
        /\ (IsBranch(hist[k].in_ex_mem) /\ IsBus(hist[k].out_mem_wb))
            => hist[k].pc_src
                = (registers[Rs1Of(hist[k].in_ex_mem.instruction)]
                    = registers[Rs2Of(hist[k].in_ex_mem.instruction)])

\* C25 happens: x1 = x2 = 5 and MEM took a bne x1,x2
C25_Witness ==
    \E k \in Calls :
        /\ IsBranch(hist[k].in_ex_mem) /\ hist[k].in_ex_mem.instruction = InstrBne
        /\ registers[1] = 5 /\ registers[2] = 5
        /\ hist[k].pc_src

\* MEM took, in call t, a branch fetched in call t-3 at some pc, and the
\* calls since fetched at pc+4, pc+8 and pc+12
TakenAt(t) ==
    /\ t \in Calls /\ t > 3
    /\ IsBranch(hist[t].in_ex_mem) /\ hist[t].pc_src
    /\ \A i \in 1..3 : hist[t - 3 + i].fetch_pc = hist[t - 3].fetch_pc + 4 * i

\* the instruction on bus, which reaches MEM d calls after call t, goes
\* through MEM in call t+d and through Write Back in call t+d+1
PassesThrough(t, bus, d) ==
    IsBus(bus) =>
        /\ t + d \in Calls
            => /\ IsBus(hist[t + d].in_ex_mem)
               /\ hist[t + d].in_ex_mem.instruction = bus.instruction
        /\ t + d + 1 \in Calls
            => /\ IsBus(hist[t + d + 1].in_mem_wb)
               /\ hist[t + d + 1].in_mem_wb.instruction = bus.instruction
               /\ hist[t + d + 1].ret = "True"

\* that instruction's writes are made: the store by MEM in call t+d, the
\* register write by Decode in the call after its Write Back
WritesMade(t, bus, d) ==
    IsBus(bus) =>
        /\ (t + d \in Calls
            /\ set_opcode(IntOfBits(Slice(bus.instruction, 25, 32))).mem_write)
            => hist[t + d].mem_write.tried
        /\ (t + d + 2 \in Calls
            /\ RegWriteOf(bus.instruction) /\ RdOf(bus.instruction) # 0)
            => /\ hist[t + d + 2].reg_write.ok
               /\ hist[t + d + 2].reg_write.rd = RdOf(bus.instruction)

\* the three instructions fetched after a branch that MEM takes in call t
\* (in EX, in Decode and just fetched during call t) are not squashed
NotSquashed(t) ==
    /\ PassesThrough(t, hist[t].in_id_ex, 1)
    /\ PassesThrough(t, hist[t].in_if_id, 2)
    /\ PassesThrough(t, hist[t].out_if_id, 3)

\* C26: when MEM takes a branch, the three instructions fetched since the
\* branch was fetched stay in the pipeline: each goes through MEM and Write
\* Back in the calls that follow, its store is made by MEM and its register
\* write by the Decode that follows its Write Back.
C26_NoSquash ==
    \A t \in Calls :
        TakenAt(t) =>
            /\ NotSquashed(t)
            /\ WritesMade(t, hist[t].in_id_ex, 1)
            /\ WritesMade(t, hist[t].in_if_id, 2)
            /\ WritesMade(t, hist[t].out_if_id, 3)

\* C27: whenever the MEM/WB bus is the sentinel the IF/ID bus is the
\* sentinel too, so no call hands Decode an instruction together with a
\* sentinel MEM/WB bus.
C27_SentinelOrder ==
    /\ bus_mem_wb = Empty => bus_if_id = Empty
    /\ \A k \in Calls :
            hist[k].dec_mem_wb = Empty => hist[k].in_if_id = Empty

\* MEM took a branch in call t
BranchTaken(t) == IsBranch(hist[t].in_ex_mem) /\ hist[t].pc_src

\* C28: when MEM takes a branch in call t, Fetch reads the branch target in
\* call t+1 and, unless MEM takes another branch in call t+1, target + 4 in
\* call t+2, whatever bus MEM is handed in call t+1, the sentinel included.
C28_TargetOnce ==
    \A t \in Calls :
        (/\ BranchTaken(t) /\ t + 2 \in Calls
         /\ hist[t + 1].in_ex_mem # NotRun /\ ~BranchTaken(t + 1))
            => /\ hist[t + 1].fetch_pc = hist[t].in_ex_mem.offset
               /\ hist[t + 2].fetch_pc = hist[t].in_ex_mem.offset + 4

\* C29: once a cycle() call has returned False, every later call returns
\* False.
C29_HaltAbsorbing ==
    \A j \in Calls : \A k \in Calls :
        (j < k /\ hist[j].ret = "False") => hist[k].ret = "False"

\* C29 happens: a call returned False with an instruction still on the
\* EX/MEM bus, and two more calls were made after it
C29_Witness ==
    \E j \in Calls :
        /\ hist[j].ret = "False" /\ j + 2 \in Calls
        /\ IsBus(hist[j].in_ex_mem) /\ IsBus(hist[j + 2].in_ex_mem)
        /\ hist[j + 2].ret = "False"

\* C30: a cycle() call that returns False changes none of the four buses,
\* nor the cycle counter, nor a register, nor a byte of Data Memory.
C30_HaltedCallFrame ==
    \A k \in Calls :
        hist[k].ret = "False"
            => /\ ~hist[k].buses_changed /\ ~hist[k].counter_changed
               /\ ~hist[k].regs_changed /\ ~hist[k].mem_changed

====
